---- MODULE Spec2Model ----
(***************************************************************************)
(* A model of the DAG viewer's layout engine (src/dagViewer.py):           *)
(* DAGVisualizerWidget.calculate_layout with its nested walk_outputs and   *)
(* walk_tree, and DAGVisualizerWidget.topological_layers.                  *)
(*                                                                         *)
(* A behaviour first builds a graph the way the repository builds one      *)
(* (DefaultDAGNode.add_child for children/parents, the node connections of *)
(* RVDAGNode for inputs/outputs), then calls one of the two methods.  The  *)
(* recursion of walk_tree is an explicit stack of frames; every write to   *)
(* the positions dict is a step of its own, in the order of the code.      *)
(***************************************************************************)
EXTENDS Integers, Sequences, FiniteSets, TLC

\* ---------------------------------------------------------------- bounds
\* Number of nodes registered in dag_nodes while a graph is built (ids 1..NumNodes).
NumNodes == 3
\* Largest number of edges (children edges plus output edges) of a built graph.
MaxEdges == 3
\* Depth of the Python call stack at which the interpreter raises RecursionError
\* (sys.getrecursionlimit(), 1000 by default).  A terminating layout of a graph
\* with n node objects nests at most n walk_tree and n walk_outputs calls, so at
\* these sizes only an unbounded recursion reaches it.
RecursionLimit == 10
\* How many times calculate_layout is called on one graph.
MaxRuns == 2

\* ------------------------------------------------------- program constants
layer_height == 200
base_node_width == 150
\* y = y + 100: the step between two chain rows under one parent.
chain_row_step == 100

\* The node object that relations may reference but that is no key of dag_nodes.
Ghost == NumNodes + 1

VARIABLES
    dag_keys,       \* self.dag_nodes: its keys, in dict (insertion) order
    children,       \* node object -> get_children(), a sequence of ids
    parents,        \* node object -> get_parents()
    inputs,         \* node object -> get_inputs()
    outputs,        \* node object -> get_outputs()
    preset,         \* "none": graph built edge by edge; else the name of a fixed graph
    pc,             \* "build", "layout", "done", "raised", "layers", "layers_done"
    err,            \* "none", "KeyError", "RecursionError"
    positions,      \* calculate_layout: positions
    roots,          \* calculate_layout: roots
    rooti,          \* index into roots of the root loop (1-based)
    x,              \* calculate_layout: x of the root loop and of orphan reconciliation
    y,              \* calculate_layout: y of the root loop
    stack,          \* the active walk_tree calls, innermost last
    run,            \* how many times calculate_layout has been called on this graph
    first_positions,\* what the first call returned
    in_degree,      \* topological_layers: in_degree
    layers,         \* topological_layers: layers (each current_layer as a set)
    remaining,      \* topological_layers: remaining
    forced          \* the nodes taken by "next(iter(remaining))"

graphvars == <<dag_keys, children, parents, inputs, outputs, preset>>
layoutvars == <<positions, roots, rooti, x, y, stack, run, first_positions>>
topovars == <<in_degree, layers, remaining, forced>>
vars == <<dag_keys, children, parents, inputs, outputs, preset, pc, err,
          positions, roots, rooti, x, y, stack, run, first_positions,
          in_degree, layers, remaining, forced>>

\* ---------------------------------------------------------------- helpers
EmptyMap == [k \in {} |-> 0]

\* d[k] = v on a Python dict.
Put(d, k, v) == [i \in (DOMAIN d) \cup {k} |-> IF i = k THEN v ELSE d[i]]

Range(s) == {s[i] : i \in DOMAIN s}

\* Variant: the extent of the chain just walked is not taken into account.
Max_kept(a, b) == b

Max(a, b) == IF a >= b THEN a ELSE b

KeySet == Range(dag_keys)

Objs == DOMAIN children

NoEdges(objs) == [o \in objs |-> <<>>]

RECURSIVE SumLen(_, _)
SumLen(f, S) ==
    IF S = {} THEN 0
    ELSE LET o == CHOOSE o \in S : TRUE IN Len(f[o]) + SumLen(f, S \ {o})

EdgeCount == SumLen(children, Objs) + SumLen(outputs, Objs)

\* ------------------------------------------------------- the fixed graphs
\* create_sample_dag, the connections among A..F (ids 1..6): A->C, B->D, C->E,
\* D->E, E->F; the nodes answer get_inputs/get_outputs with empty lists.
ScenarioKeys == <<1, 2, 3, 4, 5, 6>>
ScenarioChildren ==
    [o \in 1..6 |-> CASE o = 1 -> <<3>> [] o = 2 -> <<4>> [] o = 3 -> <<5>>
                      [] o = 4 -> <<5>> [] o = 5 -> <<6>> [] OTHER -> <<>>]
ScenarioParents ==
    [o \in 1..6 |-> CASE o = 3 -> <<1>> [] o = 4 -> <<2>> [] o = 5 -> <<3, 4>>
                      [] o = 6 -> <<5>> [] OTHER -> <<>>]

\* A group R (1) with the members S (2), A (3), B (4); connections S->A, A->B, B->A.
CycleKeys == <<1, 2, 3, 4>>
CycleChildren == [o \in 1..4 |-> IF o = 1 THEN <<2, 3, 4>> ELSE <<>>]
CycleParents == [o \in 1..4 |-> IF o = 1 THEN <<>> ELSE <<1>>]
CycleOutputs ==
    [o \in 1..4 |-> CASE o = 2 -> <<3>> [] o = 3 -> <<4>> [] o = 4 -> <<3>>
                      [] OTHER -> <<>>]
CycleInputs ==
    [o \in 1..4 |-> CASE o = 3 -> <<2, 4>> [] o = 4 -> <<3>> [] OTHER -> <<>>]

\* A -> C -> D -> E and B -> E (ids A=1, B=2, C=3, D=4, E=5): E has the parents D and B.
DeepKeys == <<1, 2, 3, 4, 5>>
DeepChildren ==
    [o \in 1..5 |-> CASE o = 1 -> <<3>> [] o = 2 -> <<5>> [] o = 3 -> <<4>>
                      [] o = 4 -> <<5>> [] OTHER -> <<>>]
DeepParents ==
    [o \in 1..5 |-> CASE o = 3 -> <<1>> [] o = 4 -> <<3>> [] o = 5 -> <<4, 2>>
                      [] OTHER -> <<>>]

\* A group 1 with the members 2, 3, 4, 5, of which 4 feeds 5, and a group 2
\* with the member 6: acyclic, with consistent bookkeeping.
OverlapKeys == <<1, 2, 3, 4, 5, 6>>
OverlapChildren ==
    [o \in 1..6 |-> CASE o = 1 -> <<2, 3, 4, 5>> [] o = 2 -> <<6>> [] OTHER -> <<>>]
OverlapParents ==
    [o \in 1..6 |-> CASE o \in {2, 3, 4, 5} -> <<1>> [] o = 6 -> <<2>> [] OTHER -> <<>>]
OverlapOutputs == [o \in 1..6 |-> IF o = 4 THEN <<5>> ELSE <<>>]
OverlapInputs == [o \in 1..6 |-> IF o = 5 THEN <<4>> ELSE <<>>]

\* ------------------------------------------------------------------ Init
\* DAGVisualizerWidget.__init__ / set_dag_nodes: the widget is handed a dict of
\* nodes.  Nothing has been laid out yet.
Idle ==
    /\ pc = "build"
    /\ err = "none"
    /\ positions = EmptyMap
    /\ roots = <<>>
    /\ rooti = 1
    /\ x = 0
    /\ y = 0
    /\ stack = <<>>
    /\ run = 0
    /\ first_positions = EmptyMap
    /\ in_degree = EmptyMap
    /\ layers = <<>>
    /\ remaining = {}
    /\ forced = {}

InitBuilt ==
    /\ preset = "none"
    /\ dag_keys = [i \in 1..NumNodes |-> i]
    /\ children = NoEdges(1..Ghost)
    /\ parents = NoEdges(1..Ghost)
    /\ inputs = NoEdges(1..Ghost)
    /\ outputs = NoEdges(1..Ghost)

InitScenario ==
    /\ preset = "scenario"
    /\ dag_keys = ScenarioKeys
    /\ children = ScenarioChildren
    /\ parents = ScenarioParents
    /\ inputs = NoEdges(1..6)
    /\ outputs = NoEdges(1..6)

InitCycle ==
    /\ preset = "cycle"
    /\ dag_keys = CycleKeys
    /\ children = CycleChildren
    /\ parents = CycleParents
    /\ inputs = CycleInputs
    /\ outputs = CycleOutputs

InitDeep ==
    /\ preset = "deep"
    /\ dag_keys = DeepKeys
    /\ children = DeepChildren
    /\ parents = DeepParents
    /\ inputs = NoEdges(1..5)
    /\ outputs = NoEdges(1..5)

InitOverlap ==
    /\ preset = "overlap"
    /\ dag_keys = OverlapKeys
    /\ children = OverlapChildren
    /\ parents = OverlapParents
    /\ inputs = OverlapInputs
    /\ outputs = OverlapOutputs

Init == Idle /\ (InitBuilt \/ InitScenario \/ InitCycle \/ InitDeep \/ InitOverlap)

\* ------------------------------------------------------- building a graph
\* DefaultDAGNode.add_child: append the child unless it is there already, and
\* record self among the child's parents.  A node is never its own child
\* (RVDAGNode.get_children skips child == self.id).
add_child(p, c) ==
    /\ pc = "build"
    /\ preset = "none"
    /\ EdgeCount < MaxEdges
    /\ p # c
    /\ c \notin Range(children[p])
    /\ children' = [children EXCEPT ![p] = Append(@, c)]
    /\ parents' = [parents EXCEPT ![c] = Append(@, p)]
    /\ UNCHANGED <<dag_keys, inputs, outputs, preset, pc, err>>
    /\ UNCHANGED layoutvars
    /\ UNCHANGED topovars

\* One connection a -> b of the host's node graph: RVDAGNode.get_outputs of a
\* lists b and RVDAGNode.get_inputs of b lists a (both skip the node itself).
connect(a, b) ==
    /\ pc = "build"
    /\ preset = "none"
    /\ EdgeCount < MaxEdges
    /\ a # b
    /\ b \notin Range(outputs[a])
    /\ outputs' = [outputs EXCEPT ![a] = Append(@, b)]
    /\ inputs' = [inputs EXCEPT ![b] = Append(@, a)]
    /\ UNCHANGED <<dag_keys, children, parents, preset, pc, err>>
    /\ UNCHANGED layoutvars
    /\ UNCHANGED topovars

\* ------------------------------------------------------------ walk_outputs
\* st = [foundnodes, chain, err]: the found map shared by the chains of one
\* parent, the chain being accumulated (rootchains[childroot]), and the exception
\* raised so far.  depth is the depth of the Python stack in this call.
RECURSIVE walk_outputs(_, _, _, _, _)
RECURSIVE walk_outputs_each(_, _, _, _, _, _)

\* Variant: a found node is recorded but not appended to the chain.
record_found_unchained(st, node_id, level) ==
    IF node_id \in DOMAIN st.foundnodes
    THEN st
    ELSE [st EXCEPT !.foundnodes = Put(@, node_id, level)]

\* if node_id not in foundnodes: foundnodes[node_id] = level; rootchains.append(node_id)
record_found(st, node_id, level) ==
    IF node_id \in DOMAIN st.foundnodes
    THEN st
    ELSE [st EXCEPT !.foundnodes = Put(@, node_id, level),
                    !.chain = Append(@, node_id)]

walk_outputs(node_id, level, st, children_ids, depth) ==
    IF st.err # "none" THEN st
    ELSE IF depth > RecursionLimit THEN [st EXCEPT !.err = "RecursionError"]
    ELSE IF node_id \notin children_ids THEN st
    ELSE LET st1 == record_found(st, node_id, level)
         IN  IF node_id \notin KeySet
             THEN [st1 EXCEPT !.err = "KeyError"]     \* dag_nodes[node_id]
             ELSE walk_outputs_each(outputs[node_id], 1, level + 1, st1,
                                    children_ids, depth + 1)

\* for child in dag_nodes[node_id].get_outputs(): walk_outputs(child.get_id(), ...)
walk_outputs_each(outs, i, level, st, children_ids, depth) ==
    IF i > Len(outs) \/ st.err # "none" THEN st
    ELSE walk_outputs_each(outs, i + 1, level,
                           walk_outputs(outs[i], level, st, children_ids, depth),
                           children_ids, depth)

\* --------------------------------------------- walk_tree: chains of a node
\* pt = [childroots, foundnodes, rootchains, err].
\* First loop of walk_tree: every child without inputs is a childroot and starts
\* a chain made by walk_outputs.
RECURSIVE find_childroots(_, _, _, _, _)
find_childroots(kids, i, pt, children_ids, depth) ==
    IF i > Len(kids) \/ pt.err # "none" THEN pt
    ELSE LET child == kids[i] IN
         IF Len(inputs[child]) = 0
         THEN LET st == walk_outputs(child, 0,
                            [foundnodes |-> pt.foundnodes, chain |-> <<>>, err |-> "none"],
                            children_ids, depth + 1)
              IN  find_childroots(kids, i + 1,
                      [childroots |-> Append(pt.childroots, child),
                       foundnodes |-> st.foundnodes,
                       rootchains |-> Put(pt.rootchains, child, st.chain),
                       err |-> st.err],
                      children_ids, depth)
         ELSE find_childroots(kids, i + 1, pt, children_ids, depth)

\* Second loop of walk_tree: a child no chain reached ("Lost child") becomes a
\* childroot with an empty chain.
RECURSIVE find_lost_children(_, _, _)
find_lost_children(kids, i, pt) ==
    IF i > Len(kids) THEN pt
    ELSE LET child == kids[i] IN
         IF child \notin DOMAIN pt.foundnodes
         THEN find_lost_children(kids, i + 1,
                  [pt EXCEPT !.foundnodes = Put(@, child, -1),
                             !.childroots = Append(@, child),
                             !.rootchains = Put(@, child, <<>>)])
         ELSE find_lost_children(kids, i + 1, pt)

\* childroots and rootchains of node_id, as walk_tree has them before it lays the
\* chains out; depth is the depth of the walk_tree call.
chains_of(node_id, depth) ==
    LET kids == children[node_id]
        pt0 == [childroots |-> <<>>, foundnodes |-> EmptyMap,
                rootchains |-> EmptyMap, err |-> "none"]
        pt1 == find_childroots(kids, 1, pt0, Range(kids), depth)
    IN  IF pt1.err # "none" THEN pt1 ELSE find_lost_children(kids, 1, pt1)

\* -------------------------------------------------------- calculate_layout
\* roots: the ids of the nodes without parents, in the order of dag_nodes.
find_roots(keys) == SelectSeq(keys, LAMBDA node_id : Len(parents[node_id]) = 0)

\* Variant: x is not reset, it keeps what an earlier call left in it.
initial_x_carried == x

\* x = 0 before the root loop.
initial_x == 0

\* Variant: the roots are spaced by a quarter of layer_height.
root_spacing_quarter == layer_height \div 4

\* y = y + layer_height / 2 after each root.
root_spacing == layer_height \div 2

\* Variant: walk_tree does not position the node it is called on.
enter_position_skipped(pos, node_id, cx, cy) == pos

\* positions[node_id] = (x, y), the first statement of walk_tree.
enter_position(pos, node_id, cx, cy) == Put(pos, node_id, <<cx, cy>>)

\* Variant: x is not reset, a chain starts where the chain before it ended.
chain_start_x_continued(f) == f.x

\* x = start_x, the first statement of the loop over childroots.
chain_start_x(f) == f.start_x

\* The call's frame right after the two loops over children: start_x = x,
\* max_x = start_x + base_node_width, y already advanced by layer_height.
\* written is history: the x-coordinates the call has written to positions so
\* far, its nested calls included; it starts with the x of positions[node_id].
new_frame(node_id, cx, cy, pt) ==
    [node_id |-> node_id, start_x |-> cx, x |-> cx, y |-> cy + layer_height,
     max_x |-> cx + base_node_width,
     childroots |-> pt.childroots, rootchains |-> pt.rootchains,
     ri |-> 1, ci |-> 1, phase |-> "root", written |-> {cx}]

\* An exception leaves calculate_layout: nothing is returned.
raise(e) ==
    /\ pc' = "raised"
    /\ err' = e
    /\ stack' = <<>>
    /\ positions' = EmptyMap

\* walk_tree(node_id, dag_nodes, cx, cy, positions) up to its loop over childroots.
call_walk_tree(node_id, cx, cy) ==
    LET depth == Len(stack) + 1 IN
    IF depth > RecursionLimit THEN raise("RecursionError")
    ELSE IF node_id \notin KeySet THEN raise("KeyError")    \* dag_nodes[node_id]
    ELSE LET pt == chains_of(node_id, depth) IN
         IF pt.err # "none" THEN raise(pt.err)
         ELSE /\ positions' = enter_position(positions, node_id, cx, cy)
              /\ stack' = Append(stack, new_frame(node_id, cx, cy, pt))
              /\ UNCHANGED <<pc, err>>

Top == stack[Len(stack)]

SetTop(f) == [stack EXCEPT ![Len(stack)] = f]

\* calculate_layout is entered (from visualize_dag): positions = {}, the roots
\* are found, x = 0, y = 0.  A second call on the same graph starts the same way.
calculate_layout ==
    /\ \/ pc = "build"
       \/ pc = "done" /\ run < MaxRuns
    /\ pc' = "layout"
    /\ run' = run + 1
    /\ first_positions' = IF run = 1 THEN positions ELSE first_positions
    /\ positions' = EmptyMap
    /\ roots' = find_roots(dag_keys)
    /\ rooti' = 1
    /\ x' = initial_x
    /\ y' = 0
    /\ stack' = <<>>
    /\ UNCHANGED <<err>>
    /\ UNCHANGED graphvars
    /\ UNCHANGED topovars

\* for root in roots: x = walk_tree(root, self.dag_nodes, x, y, positions)
walk_root ==
    /\ pc = "layout"
    /\ stack = <<>>
    /\ rooti <= Len(roots)
    /\ call_walk_tree(roots[rooti], x, y)
    /\ UNCHANGED <<roots, rooti, x, y, run, first_positions>>
    /\ UNCHANGED graphvars
    /\ UNCHANGED topovars

\* for root in childroots: x = start_x; positions[root] = (x, y); x = x + base_node_width
place_childroot ==
    /\ pc = "layout"
    /\ stack # <<>>
    /\ Top.phase = "root"
    /\ Top.ri <= Len(Top.childroots)
    /\ LET f == Top
           root == f.childroots[f.ri]
           sx == chain_start_x(f)
       IN  /\ positions' = Put(positions, root, <<sx, f.y>>)
           /\ stack' = SetTop([f EXCEPT !.x = sx + base_node_width,
                                        !.ci = 1, !.phase = "chain",
                                        !.written = @ \cup {sx}])
    /\ UNCHANGED <<pc, err, roots, rooti, x, y, run, first_positions>>
    /\ UNCHANGED graphvars
    /\ UNCHANGED topovars

\* for child in chain: x = walk_tree(child, dag_nodes, x, y, positions)
walk_chain_member ==
    /\ pc = "layout"
    /\ stack # <<>>
    /\ Top.phase = "chain"
    /\ LET f == Top
           chain == f.rootchains[f.childroots[f.ri]]
       IN  /\ f.ci <= Len(chain)
           /\ call_walk_tree(chain[f.ci], f.x, f.y)
    /\ UNCHANGED <<roots, rooti, x, y, run, first_positions>>
    /\ UNCHANGED graphvars
    /\ UNCHANGED topovars

\* After the chain: y = y + 100; max_x = max(x, max_x).
end_chain ==
    /\ pc = "layout"
    /\ stack # <<>>
    /\ Top.phase = "chain"
    /\ LET f == Top
           chain == f.rootchains[f.childroots[f.ri]]
       IN  /\ f.ci > Len(chain)
           /\ stack' = SetTop([f EXCEPT !.y = f.y + chain_row_step,
                                        !.max_x = Max(f.x, f.max_x),
                                        !.ri = f.ri + 1, !.phase = "root"])
    /\ UNCHANGED <<pc, err, positions, roots, rooti, x, y, run, first_positions>>
    /\ UNCHANGED graphvars
    /\ UNCHANGED topovars

\* return max_x: to the chain loop of the calling walk_tree, or to the root loop
\* (which then does y = y + layer_height / 2).
return_walk_tree ==
    /\ pc = "layout"
    /\ stack # <<>>
    /\ Top.phase = "root"
    /\ Top.ri > Len(Top.childroots)
    /\ LET ret == Top.max_x
           done == Top.written
           rest == SubSeq(stack, 1, Len(stack) - 1)
       IN  IF rest = <<>>
           THEN /\ stack' = rest
                /\ x' = ret
                /\ y' = y + root_spacing
                /\ rooti' = rooti + 1
           ELSE /\ stack' = [rest EXCEPT ![Len(rest)] =
                                 [@ EXCEPT !.x = ret, !.ci = @ + 1,
                                           !.written = @ \cup done]]
                /\ UNCHANGED <<x, y, rooti>>
    /\ UNCHANGED <<pc, err, positions, roots, run, first_positions>>
    /\ UNCHANGED graphvars
    /\ UNCHANGED topovars

\* Variant: no reconciliation, positions is returned as the root loop left it.
reconcile_nothing(keys, i, pos, cx) == [positions |-> pos, x |-> cx]

\* Variant: x is not advanced after a node is added.
RECURSIVE reconcile_stacked(_, _, _, _)
reconcile_stacked(keys, i, pos, cx) ==
    IF i > Len(keys) THEN [positions |-> pos, x |-> cx]
    ELSE IF keys[i] \notin DOMAIN pos
         THEN reconcile_stacked(keys, i + 1, Put(pos, keys[i], <<cx, 0>>), cx)
         ELSE reconcile_stacked(keys, i + 1, pos, cx)

\* "Double check we have everyone": every key not in positions gets (x, 0),
\* x advancing by base_node_width, in the order of dag_nodes.
RECURSIVE reconcile(_, _, _, _)
reconcile(keys, i, pos, cx) ==
    IF i > Len(keys) THEN [positions |-> pos, x |-> cx]
    ELSE IF keys[i] \notin DOMAIN pos
         THEN reconcile(keys, i + 1, Put(pos, keys[i], <<cx, 0>>), cx + base_node_width)
         ELSE reconcile(keys, i + 1, pos, cx)

\* The loop over dag_nodes after the root loop, and return positions.
reconcile_orphans ==
    /\ pc = "layout"
    /\ stack = <<>>
    /\ rooti > Len(roots)
    /\ LET r == reconcile(dag_keys, 1, positions, x)
       IN  /\ positions' = r.positions
           /\ x' = r.x
    /\ pc' = "done"
    /\ UNCHANGED <<err, roots, rooti, y, stack, run, first_positions>>
    /\ UNCHANGED graphvars
    /\ UNCHANGED topovars

\* ------------------------------------------------------ topological_layers
\* in_degree = {node_id: len(node.get_parents())}; layers = []; remaining = set(keys)
topological_layers ==
    /\ pc = "build"
    /\ pc' = "layers"
    /\ in_degree' = [k \in KeySet |-> Len(parents[k])]
    /\ layers' = <<>>
    /\ remaining' = KeySet
    /\ forced' = {}
    /\ UNCHANGED <<err>>
    /\ UNCHANGED graphvars
    /\ UNCHANGED layoutvars

\* Variant: every edge lowers the in-degree of the child by two.
decrements_twice(current_layer, child_id) ==
    2 * Cardinality({e \in UNION {{<<n, i>> : i \in DOMAIN children[n]} : n \in current_layer} :
                        children[e[1]][e[2]] = child_id})

\* Variant: the nodes of the layer are not removed from remaining.
peel_keeping(current_layer) ==
    /\ layers' = Append(layers, current_layer)
    /\ remaining' = remaining
    /\ in_degree' = in_degree

\* How often child_id occurs among the children of the nodes of current_layer:
\* so many times the inner loop runs in_degree[child_id] -= 1.
decrements(current_layer, child_id) ==
    Cardinality({e \in UNION {{<<n, i>> : i \in DOMAIN children[n]} : n \in current_layer} :
                    children[e[1]][e[2]] = child_id})

\* The state after one iteration of "while remaining" that appends current_layer.
peel(current_layer) ==
    /\ layers' = Append(layers, current_layer)
    /\ remaining' = remaining \ current_layer
    /\ in_degree' = [k \in DOMAIN in_degree |->
                        in_degree[k] - decrements(current_layer, k)]

\* One iteration of the while loop.  Without a node of in-degree 0 it takes
\* next(iter(remaining)): whichever element the set's iteration yields first.
layer_round ==
    /\ pc = "layers"
    /\ remaining # {}
    /\ LET current_layer == {n \in remaining : in_degree[n] = 0}
       IN  IF current_layer # {}
           THEN peel(current_layer) /\ UNCHANGED forced
           ELSE \E n \in remaining : peel({n}) /\ forced' = forced \cup {n}
    /\ UNCHANGED <<pc, err>>
    /\ UNCHANGED graphvars
    /\ UNCHANGED layoutvars

\* return layers
return_layers ==
    /\ pc = "layers"
    /\ remaining = {}
    /\ pc' = "layers_done"
    /\ UNCHANGED <<err>>
    /\ UNCHANGED graphvars
    /\ UNCHANGED layoutvars
    /\ UNCHANGED topovars

\* ------------------------------------------------------------------- Next
Next ==
    \/ \E p \in KeySet, c \in Objs : add_child(p, c)
    \/ \E a \in KeySet, b \in Objs : connect(a, b)
    \/ calculate_layout
    \/ walk_root
    \/ place_childroot
    \/ walk_chain_member
    \/ end_chain
    \/ return_walk_tree
    \/ reconcile_orphans
    \/ topological_layers
    \/ layer_round
    \/ return_layers

Spec == Init /\ [][Next]_vars

\* ------------------------------------------------- notions of the claims
\* Every relation of every registered node names registered nodes only.
WellFormed ==
    \A k \in KeySet :
        (Range(children[k]) \cup Range(parents[k]) \cup
         Range(inputs[k]) \cup Range(outputs[k])) \subseteq KeySet

\* get_children or get_outputs of a registered node returns a node that is no key.
MalformedReference ==
    \E k \in KeySet : ~((Range(children[k]) \cup Range(outputs[k])) \subseteq KeySet)

Succs(rel, S) == UNION {Range(rel[n]) : n \in S \cap DOMAIN rel}

RECURSIVE ReachFrom(_, _)
ReachFrom(rel, S) ==
    LET T == S \cup Succs(rel, S) IN IF T = S THEN S ELSE ReachFrom(rel, T)

Acyclic(rel) == \A n \in DOMAIN rel : n \notin ReachFrom(rel, Range(rel[n]))

OutputCycle(a, b) ==
    /\ a # b
    /\ b \in Range(outputs[a])
    /\ a \in Range(outputs[b])

PosX(n) == positions[n][1]
PosY(n) == positions[n][2]

\* The 1-based index of the layer that holds n.
LayerOf(n) == CHOOSE i \in DOMAIN layers : n \in layers[i]

\* The innermost walk_tree call has just assigned the root of its k-th chain, k >= 2.
SecondChainPlaced ==
    /\ pc = "layout"
    /\ stack # <<>>
    /\ Top.phase = "chain"
    /\ Top.ri >= 2
    /\ Top.ci = 1

\* ------------------------------------------------------------------ claims
\* C1: when calculate_layout returns on a graph whose relations name keys only,
\* the keys of the returned positions are exactly the keys of dag_nodes.
C1_Completeness ==
    (pc = "done" /\ WellFormed) => DOMAIN positions = KeySet

\* C1 witness: a returned layout in which a node with a parent sits on the
\* reconciliation row y = 0 (the tree walk did not reach it).
C1_Witness ==
    /\ pc = "done"
    /\ WellFormed
    /\ \E k \in KeySet : Len(parents[k]) > 0 /\ PosY(k) = 0

\* C2 (as claimed): with an output cycle A -> B -> A in a well-formed graph whose
\* children relation is acyclic, calculate_layout does not fail and the returned
\* positions hold A and B.
C2_OutputCycleSafe ==
    \A a, b \in KeySet :
        (WellFormed /\ Acyclic(children) /\ OutputCycle(a, b)) =>
            /\ pc # "raised"
            /\ pc = "done" => {a, b} \subseteq DOMAIN positions

\* C3 (as claimed): with a cycle in the children relation (and none in outputs)
\* calculate_layout terminates: walk_tree never recurses without bound.
C3_ChildrenCycleTerminates ==
    (WellFormed /\ ~Acyclic(children) /\ Acyclic(outputs)) => pc # "raised"

\* C4 (as claimed): the x assigned to the root of a second chain under a parent
\* is at least the max-x reached at the end of the chain before it.
C4_SecondChainRightOfFirst ==
    SecondChainPlaced => PosX(Top.childroots[Top.ri]) >= Top.max_x

\* C4 (amended): the root of a second chain is assigned the x its parent's
\* walk_tree call was given (where the first chain started too), on the current
\* row, and that x is at least base_node_width less than the max-x reached so far.
C4_ChainsRestartAtStartX ==
    SecondChainPlaced =>
        /\ positions[Top.childroots[Top.ri]] = <<Top.start_x, Top.y>>
        /\ Top.start_x + base_node_width <= Top.max_x

\* C4 witness: a second chain root has just been placed.
C4_Witness == SecondChainPlaced

\* C5 (as claimed): when children or outputs of a node name a node that is no
\* key, calculate_layout does not raise and every key ends up positioned.
C5_MalformedReferenceSkipped ==
    MalformedReference =>
        /\ pc # "raised"
        /\ pc = "done" => KeySet \subseteq DOMAIN positions

\* C6 (as claimed): in the scenario A->C, B->D, C->E, D->E, E->F the node E
\* (5) has no position until both its parents C (3) and D (4) have one.
C6_AfterBothParents ==
    (preset = "scenario" /\ 5 \in DOMAIN positions) => {3, 4} \subseteq DOMAIN positions

\* C6 (amended): during the tree walk, before orphan reconciliation, a node that
\* has parents is assigned a position only after at least one of its parents has one.
C6_AfterSomeParent ==
    pc = "layout" =>
        \A n \in DOMAIN positions :
            Len(parents[n]) = 0 \/ \E p \in Range(parents[n]) : p \in DOMAIN positions

\* C6 witness: in the scenario E is positioned, C is, D is not yet.
C6_Witness ==
    /\ preset = "scenario"
    /\ pc = "layout"
    /\ {3, 5} \subseteq DOMAIN positions
    /\ 4 \notin DOMAIN positions

\* C7 (as claimed): on a graph with an acyclic children relation, every child is
\* strictly below each of its parents in the returned positions.
C7_ChildrenBelowParents ==
    (pc = "done" /\ WellFormed /\ Acyclic(children)) =>
        \A p \in KeySet : \A c \in Range(children[p]) : PosY(c) > PosY(p)

\* C8: in the returned positions a later top-level root is at least
\* layer_height / 2 below an earlier one, and the first root is at (0, 0).
C8_RootSpacing ==
    pc = "done" =>
        LET rootidx == {i \in DOMAIN dag_keys : Len(parents[dag_keys[i]]) = 0} IN
        /\ \A i, j \in rootidx :
               i < j => PosY(dag_keys[j]) >= PosY(dag_keys[i]) + layer_height \div 2
        /\ \A i \in rootidx :
               (\A j \in rootidx : i <= j) => positions[dag_keys[i]] = <<0, 0>>

\* C8 witness: a returned layout of a graph with two roots, the first of which
\* has children.
C8_Witness ==
    /\ pc = "done"
    /\ \E i, j \in DOMAIN dag_keys :
           /\ i < j
           /\ Len(parents[dag_keys[i]]) = 0
           /\ Len(parents[dag_keys[j]]) = 0
           /\ Len(children[dag_keys[i]]) > 0

C10_TopologicalLayers ==
    pc = "layers_done" =>
        /\ \A n \in KeySet : Len(parents[n]) = 0 => n \in layers[1]
        /\ \A p \in KeySet : \A c \in Range(children[p]) \cap KeySet :
               c \notin forced => LayerOf(c) > LayerOf(p)
        /\ Acyclic(children) => forced = {}

\* C10 witness: the layers of an acyclic graph with a node that has two parents
\* in different layers.
C10_Witness ==
    /\ pc = "layers_done"
    /\ Acyclic(children)
    /\ \E c \in KeySet : \E p, q \in Range(parents[c]) : LayerOf(p) < LayerOf(q)

\* C11: topological_layers loses and repeats no node: at every point of the
\* loop the layers are non-empty and pairwise disjoint, together with remaining
\* they hold exactly the keys (so every round took at least one node out of
\* remaining and there are at most as many rounds as nodes), and the returned
\* layers cover the keys.
C11_LayersPartitionKeys ==
    pc \in {"layers", "layers_done"} =>
        /\ \A i \in DOMAIN layers : layers[i] # {}
        /\ \A i, j \in DOMAIN layers : i # j => layers[i] \cap layers[j] = {}
        /\ \A i \in DOMAIN layers : layers[i] \cap remaining = {}
        /\ UNION {layers[i] : i \in DOMAIN layers} \cup remaining = KeySet
        /\ Len(layers) + Cardinality(remaining) <= Cardinality(KeySet)
        /\ pc = "layers_done" => UNION {layers[i] : i \in DOMAIN layers} = KeySet

\* C11 witness: the layers returned for a graph with a children cycle, where a
\* node had to be force-selected.
C11_Witness ==
    /\ pc = "layers_done"
    /\ ~Acyclic(children)
    /\ forced # {}
    /\ Len(layers) >= 2

\* The innermost walk_tree call has laid out all its chains and is about to
\* return max_x.
WalkTreeReturning ==
    /\ pc = "layout"
    /\ stack # <<>>
    /\ Top.phase = "root"
    /\ Top.ri > Len(Top.childroots)

\* C12 (as claimed): when a call walk_tree(n, ...) returns on a well-formed
\* graph without output cycles, every node reachable from n through children
\* edges has a position.
C12_WalkReachesDescendants ==
    (WalkTreeReturning /\ WellFormed /\ Acyclic(outputs)) =>
        ReachFrom(children, {Top.node_id}) \subseteq DOMAIN positions

\* The innermost walk_tree call has just assigned the root of one of its chains.
ChainRootPlaced ==
    /\ pc = "layout"
    /\ stack # <<>>
    /\ Top.phase = "chain"
    /\ Top.ci = 1

\* The innermost walk_tree call was made for the first member of a chain of its
\* caller and has just positioned its node.
FirstMemberEntered ==
    /\ pc = "layout"
    /\ Len(stack) >= 2
    /\ stack[Len(stack) - 1].ci = 1
    /\ Top.phase = "root"
    /\ Top.ri = 1

\* The y of the row of the k-th chain (k = ri - 1) of frame f, from the position
\* of the node f was called on.
RowY(f) == PosY(f.node_id) + layer_height + (f.ri - 1) * chain_row_step

\* C13 (as claimed): while walk_tree lays out its k-th chain, the chain's root
\* stays at (x, y + layer_height + k*100), and the walk_tree calls made for the
\* chain are made for members other than the root, the first of them at
\* x + base_node_width.
C13_ChainRootStaysAtRowStart ==
    Acyclic(children) =>
        \A i \in DOMAIN stack :
            LET f == stack[i] IN
            (pc = "layout" /\ f.phase = "chain") =>
                /\ positions[f.childroots[f.ri]] = <<f.start_x, RowY(f)>>
                /\ i < Len(stack) => stack[i + 1].node_id # f.childroots[f.ri]

\* C13 (amended): the root of the k-th chain is first assigned
\* (x, y + layer_height + k*100); a chain is either empty (a lost child) or
\* begins with its own root, and every childroot without inputs has a non-empty
\* chain; so the first walk_tree call of a chain is made for the root itself,
\* at x + base_node_width on the same row, and assigns it that position.
C13_ChainRootWalkedItself ==
    Acyclic(children) =>
        /\ ChainRootPlaced =>
               positions[Top.childroots[Top.ri]] = <<Top.start_x, RowY(Top)>>
        /\ \A i \in DOMAIN stack : \A r \in Range(stack[i].childroots) :
               LET chain == stack[i].rootchains[r] IN
               /\ chain = <<>> \/ chain[1] = r
               /\ Len(inputs[r]) = 0 => chain # <<>>
        /\ FirstMemberEntered =>
               LET f == stack[Len(stack) - 1] IN
               /\ Top.node_id = f.childroots[f.ri]
               /\ Top.start_x = f.start_x + base_node_width
               /\ positions[Top.node_id] = <<f.start_x + base_node_width, RowY(f)>>

\* C13 witness: walk_tree has been called for the root of a second chain.
C13_Witness ==
    /\ Acyclic(children)
    /\ FirstMemberEntered
    /\ stack[Len(stack) - 1].ri >= 2

\* C14: a walk_tree call entered at x returns r >= x + base_node_width, and
\* every x-coordinate written to positions during the call, nested calls
\* included, lies in [x, r); so between two roots the x cursor of the root loop
\* is to the right of every position the roots walked so far have placed.
C14_WalkExtent ==
    pc = "layout" =>
        /\ \A i \in DOMAIN stack :
               /\ stack[i].max_x >= stack[i].start_x + base_node_width
               /\ \A w \in stack[i].written : w >= stack[i].start_x
        /\ WalkTreeReturning => \A w \in Top.written : w < Top.max_x
        /\ stack = <<>> => \A n \in DOMAIN positions : PosX(n) < x

\* C14 witness: a walk_tree call that made nested calls is returning to the root
\* loop after an earlier root has been walked.
C14_Witness ==
    /\ WalkTreeReturning
    /\ Len(stack) = 1
    /\ rooti >= 2
    /\ Cardinality(Top.written) >= 2
    /\ Top.max_x > Top.start_x + base_node_width

\* The keys without a position, in the order of dag_nodes.
Unpositioned(k) == k \notin DOMAIN positions

Orphans == SelectSeq(dag_keys, Unpositioned)

\* C15: the step that follows the root loop gives the keys without a position,
\* in the order of dag_nodes, the positions (X, 0), (X + base_node_width, 0),
\* ... where X is the x the root loop ended with (0 when there is no root) and
\* X is at least every x-coordinate in positions; the positions already in the
\* map are unchanged.
C15_OrphanRow ==
    [][(pc = "layout" /\ pc' = "done") =>
           /\ DOMAIN positions' = DOMAIN positions \cup Range(Orphans)
           /\ \A i \in DOMAIN Orphans :
                  positions'[Orphans[i]] = <<x + (i - 1) * base_node_width, 0>>
           /\ \A n \in DOMAIN positions :
                  /\ positions'[n] = positions[n]
                  /\ PosX(n) <= x
           /\ roots = <<>> => x = 0]_vars

\* C15 witness: a layout was returned in which roots were walked and two nodes
\* that are no roots were placed on the row y = 0.
C15_Witness ==
    /\ pc = "done"
    /\ roots # <<>>
    /\ Cardinality({n \in KeySet \ Range(roots) : PosY(n) = 0}) >= 2

\* C16 (as claimed): for a graph with acyclic children and outputs and
\* consistent parent/child bookkeeping, no two distinct nodes of the returned
\* layout have the same (x, y).
C16_NoCoincidentNodes ==
    (pc = "done" /\ WellFormed /\ Acyclic(children) /\ Acyclic(outputs)) =>
        \A m, n \in KeySet : m # n => positions[m] # positions[n]

====
